---- MODULE Spec2Model ----
(***************************************************************************)
(* The streaming summary client of smart-summary-app: the Home page's      *)
(* handleSummarize (frontend/app/page.tsx), which posts the text, reads    *)
(* the response body chunk by chunk, parses the Server-Sent-Events lines   *)
(* of every chunk and drives the React state summary / isLoading / error;  *)
(* the SummaryForm that calls it (frontend/components/SummaryForm.tsx) and *)
(* what SummaryDisplay shows of the result.                                *)
(*                                                                         *)
(* Text is a sequence of characters, one string per character; a chunk of  *)
(* the response body is a sequence of bytes.  An ASCII byte and its        *)
(* character are the same string; "C3" "A9" are the two bytes of U+00E9.   *)
(***************************************************************************)
EXTENDS Integers, Sequences, FiniteSets, TLC

(* ------------------------------ bounds -------------------------------- *)

\* Most frames the server puts in one response body.
MaxFrames == 3

\* Most chunks the reader delivers one response body in.
MaxReads == 2

\* The most lines one chunk has when a single chunk is parsed (SpecParse).
MaxLines == 2

(* ---------------------------- characters ------------------------------ *)

NL == "\n"
BS == "\\"
E_ACUTE == "U+00E9"
REPLACEMENT == "U+FFFD"

\* 'data: '
DATA_PREFIX == <<"d", "a", "t", "a", ":", " ">>

\* '[DONE]'
DONE_SENTINEL == <<"[", "D", "O", "N", "E", "]">>

\* '[ERROR]'
ERROR_SENTINEL == <<"[", "E", "R", "R", "O", "R", "]">>

\* 'Failed to generate summary'
MSG_FAILED ==
    <<"F", "a", "i", "l", "e", "d", " ", "t", "o", " ", "g", "e", "n", "e", "r",
      "a", "t", "e", " ", "s", "u", "m", "m", "a", "r", "y">>

\* 'No response body'
MSG_NO_BODY ==
    <<"N", "o", " ", "r", "e", "s", "p", "o", "n", "s", "e", " ", "b", "o", "d", "y">>

\* 'An unexpected error occurred'
MSG_UNEXPECTED ==
    <<"A", "n", " ", "u", "n", "e", "x", "p", "e", "c", "t", "e", "d", " ", "e",
      "r", "r", "o", "r", " ", "o", "c", "c", "u", "r", "r", "e", "d">>

(* ------------------------- string operations -------------------------- *)

\* String.prototype.startsWith
StartsWith(s, p) == Len(s) >= Len(p) /\ SubSeq(s, 1, Len(p)) = p

\* String.prototype.slice(n), n >= 0
Slice(s, n) == SubSeq(s, n + 1, Len(s))

\* The least element of a non-empty set of numbers.
Least(S) == CHOOSE i \in S : \A j \in S : i <= j

\* Where sep occurs in s at or after position i.
Occurrences(s, sep, i) ==
    {j \in i..(Len(s) - Len(sep) + 1) : \A d \in 1..Len(sep) : s[j + d - 1] = sep[d]}

\* String.prototype.split(sep) for a non-empty separator: the pieces between
\* the occurrences of sep found scanning left to right from i, without overlap.
RECURSIVE SplitFrom(_, _, _)
SplitFrom(s, sep, i) ==
    LET occ == Occurrences(s, sep, i) IN
    IF occ = {} THEN <<SubSeq(s, i, Len(s))>>
    ELSE LET j == Least(occ) IN
         <<SubSeq(s, i, j - 1)>> \o SplitFrom(s, sep, j + Len(sep))

Split(s, sep) == SplitFrom(s, sep, 1)

\* new TextDecoder().decode(value): UTF-8, not fatal, no stream option, so
\* every call starts afresh. Bytes below 0x80 are their characters; C3 A9 is
\* U+00E9; a C3 that no A9 follows (the value ends, or another byte comes)
\* and an A9 that follows no C3 each become U+FFFD.
RECURSIVE Decode(_)
Decode(b) ==
    LET multi == {i \in 1..Len(b) : b[i] \in {"C3", "A9"}} IN
    IF multi = {} THEN b
    ELSE LET i == Least(multi) IN
         SubSeq(b, 1, i - 1) \o
         (IF b[i] = "C3" /\ i < Len(b) /\ b[i + 1] = "A9"
          THEN <<E_ACUTE>> \o Decode(SubSeq(b, i + 2, Len(b)))
          ELSE <<REPLACEMENT>> \o Decode(SubSeq(b, i + 1, Len(b))))

\* A variant of Unescape that leaves the payload as it came.
Unescape_mut(s) == s

\* A variant of Unescape without the g flag: only the first backslash-n.
Unescape_mutFirst(s) ==
    LET occ == Occurrences(s, <<BS, "n">>, 1) IN
    IF occ = {} THEN s
    ELSE LET i == Least(occ) IN
         SubSeq(s, 1, i - 1) \o <<NL>> \o SubSeq(s, i + 2, Len(s))

\* data.replace(/\\n/g, '\n'): every backslash followed by n becomes a
\* newline, scanning left to right.
RECURSIVE Unescape(_)
Unescape(s) ==
    LET occ == Occurrences(s, <<BS, "n">>, 1) IN
    IF occ = {} THEN s
    ELSE LET i == Least(occ) IN
         SubSeq(s, 1, i - 1) \o <<NL>> \o Unescape(SubSeq(s, i + 2, Len(s)))

(* ------------------- the loop body of handleSummarize ------------------ *)

\* A variant of IsDataLine that does not ask for the space after 'data:'.
IsDataLine_mut(line) == StartsWith(line, <<"d", "a", "t", "a", ":">>)

\* line.startsWith('data: ')
IsDataLine(line) == StartsWith(line, DATA_PREFIX)

\* line.slice(6)
DataOf(line) == Slice(line, 6)

\* A variant of IsDone that asks only for a payload starting with '[DONE]'.
IsDone_mut(data) == StartsWith(data, DONE_SENTINEL)

\* data === '[DONE]'
IsDone(data) == data = DONE_SENTINEL

\* data.startsWith('[ERROR]')
IsError(data) == StartsWith(data, ERROR_SENTINEL)

\* A variant of ErrorOfData that removes '[ERROR]' without the space.
ErrorOfData_mut(data) == [isError |-> TRUE, message |-> Slice(data, 7)]

\* new Error(data.slice(8))
ErrorOfData(data) == [isError |-> TRUE, message |-> Slice(data, 8)]

\* A variant of Accumulate that assigns instead of appending.
Accumulate_mut(acc, unescaped) == unescaped

\* accumulatedSummary += unescaped
Accumulate(acc, unescaped) == acc \o unescaped

\* What the two nested for-loops have done so far within one chunk: acc is
\* accumulatedSummary, calls the calls made in order, status says whether the
\* loops go on ("continue"), ended at the return of line 62 ("return") or at
\* the throw of line 66 ("throw", with the thrown value).
LoopStart(acc) ==
    [acc |-> acc, calls |-> <<>>, status |-> "continue",
     thrown |-> [isError |-> TRUE, message |-> <<>>]]

\* One iteration of the inner loop, lines 57-74.
ProcessLine(st, line) ==
    IF st.status # "continue" THEN st
    ELSE IF ~IsDataLine(line) THEN st
    ELSE LET data == DataOf(line) IN
         IF IsDone(data) THEN [st EXCEPT !.status = "return"]
         ELSE IF IsError(data)
              THEN [st EXCEPT !.status = "throw",
                              !.thrown = ErrorOfData(data),
                              !.calls = Append(@, [fn |-> "throw", arg |-> data])]
              ELSE LET acc == Accumulate(st.acc, Unescape(data)) IN
                   [st EXCEPT !.acc = acc,
                              !.calls = Append(@, [fn |-> "setSummary", arg |-> acc])]

\* for (const line of lines)
RECURSIVE ProcessLines(_, _)
ProcessLines(st, lines) ==
    IF lines = <<>> THEN st
    ELSE ProcessLines(ProcessLine(st, Head(lines)), Tail(lines))

\* for (const event of events) { const lines = event.split('\n') ... }
RECURSIVE ProcessEvents(_, _)
ProcessEvents(st, events) ==
    IF events = <<>> THEN st
    ELSE ProcessEvents(ProcessLines(st, Split(Head(events), <<NL>>)), Tail(events))

\* Lines 48-76 for one value read: decode, split on the blank line, loop.
ProcessChunk(acc, value) ==
    ProcessEvents(LoopStart(acc), Split(Decode(value), <<NL, NL>>))

(* --------------------------- the environment -------------------------- *)

\* What the server can put in one frame: the payload bytes of its data line,
\* and what the payload stands for under the wire protocol (kind, and text:
\* the summary fragment of a content frame, the message of an error frame).
F_AB ==
    [kind |-> "content", payload |-> <<"a", "b">>, text |-> <<"a", "b">>]

F_ESC ==
    [kind |-> "content", payload |-> <<"C3", "A9", BS, "n">>,
     text |-> <<E_ACUTE, NL>>]

F_DONE ==
    [kind |-> "done", payload |-> DONE_SENTINEL, text |-> <<>>]

F_ERR ==
    [kind |-> "error", payload |-> ERROR_SENTINEL \o <<" ", "q">>,
     text |-> <<"q">>]

\* '[ERROR]' not followed by the space of the 8-character prefix: content.
F_ERRX ==
    [kind |-> "content", payload |-> ERROR_SENTINEL \o <<"x">>,
     text |-> ERROR_SENTINEL \o <<"x">>]

FrameLib == {F_AB, F_ESC, F_DONE, F_ERR, F_ERRX}

ContentFrames == {f \in FrameLib : f.kind = "content"}

\* A frame that ends the protocol's stream: [DONE] or [ERROR] <message>.
TerminalFrames == {f \in FrameLib : f.kind # "content"}

\* The response bodies: up to MaxFrames frames. Content frames, then nothing
\* more (the connection closes early), or a terminal frame, or a terminal
\* frame and one more frame after it (a server that keeps sending).
Bodies ==
    LET Contents(n) == [1..n -> ContentFrames] IN
      UNION {Contents(n) : n \in 1..MaxFrames}
      \cup UNION {{c \o <<t>> : c \in Contents(n), t \in TerminalFrames} :
                    n \in 0..(MaxFrames - 1)}
      \cup UNION {{c \o <<t, f>> : c \in Contents(n), t \in TerminalFrames,
                                    f \in FrameLib} : n \in 0..(MaxFrames - 2)}

\* The bytes of one frame: its data line and the blank line that ends it.
FrameBytes(f) == DATA_PREFIX \o f.payload \o <<NL, NL>>

RECURSIVE Encode(_)
Encode(fs) == IF fs = <<>> THEN <<>> ELSE FrameBytes(Head(fs)) \o Encode(Tail(fs))

\* What fetch can reject with: an Error with a message, an Error with an
\* empty message, a value that is no Error.
Rejections ==
    {[isError |-> TRUE, message |-> <<"n", "e", "t">>],
     [isError |-> TRUE, message |-> <<>>],
     [isError |-> FALSE, message |-> <<>>]}

\* What reader.read() rejects with once the body is streaming: a network
\* error.
ReadRejections == {[isError |-> TRUE, message |-> <<"n", "e", "t">>]}

\* What response.json() rejects with when the body is not JSON: a SyntaxError
\* with the parser's message.
JsonRejections == {[isError |-> TRUE, message |-> <<"J", "S", "O", "N">>]}

\* errorData.detail of a response that is not ok: absent (empty) or a text.
Details == {<<>>, <<"A", "P", "I">>}

(* ----------------------- the text of SummaryForm ----------------------- *)

\* const minChars = 10
minChars == 10

\* const maxChars = 50000
maxChars == 50000

\* The text of the textarea, by its shape: `lead` whitespace characters, then
\* `core` characters of which the first and the last are no whitespace, then
\* `trail` whitespace characters. A text of whitespace only has it all in lead.
Text(lead, core, trail) == [lead |-> lead, core |-> core, trail |-> trail]

\* useState('')
EMPTY_TEXT == Text(0, 0, 0)

\* The example text of handleExampleText: 1644 characters, none of them
\* whitespace at either end.
EXAMPLE_TEXT == Text(0, 1644, 0)

\* What the user can type or paste into the textarea.
Typed ==
    {Text(lead, 0, 0) : lead \in {0, 3}}
    \cup {Text(lead, core, trail) :
            lead \in {0, 1}, trail \in {0, 2},
            core \in {9, 10, 11, 49999, 50000, 50001}}

\* text.length
Length(t) == t.lead + t.core + t.trail

\* A variant of Trim that removes nothing.
Trim_mut(t) == t

\* text.trim()
Trim(t) == Text(0, t.core, 0)

\* A variant of IsTextValid that does not trim the text.
IsTextValid_mut(t) == Length(t) >= minChars /\ Length(t) <= maxChars

\* const isTextValid = text.trim().length >= minChars && text.trim().length <= maxChars
IsTextValid(t) == Length(Trim(t)) >= minChars /\ Length(Trim(t)) <= maxChars

(* ------------------------------- state --------------------------------- *)

VARIABLES
    summary,            \* useState: the summary shown
    isLoading,          \* useState
    error,              \* useState: the error shown
    pc,                 \* where handleSummarize is: "idle" before the first call,
                        \* "fetching" (awaiting fetch), "reading" (awaiting
                        \* reader.read()), "done" (returned), "failed" (catch ran)
    accumulatedSummary, \* the local of line 39
    frames,             \* the frames the server sends in this response
    pos,                \* how many of the bytes the reader has delivered
    reads,              \* the values the reader has delivered, in order
    calls,              \* what the try/catch of this call has done, in order:
                        \* setSummary(arg), throw of line 66 (arg: data), setError(arg),
                        \* json (arg: the detail response.json() resolved with)
    exit,               \* how this call left the try: "none" while it runs
    caught,             \* <<err>> once the catch block of this call has run on
                        \* err, <<>> before
    reader,             \* the reader of line 37 and its stream: "none" before
                        \* getReader(), "open", "closed" (the stream ended),
                        \* "errored" (a read failed), "cancelled"
    stale,              \* whether the page still showed both a summary and an
                        \* error of the call before when this call was submitted
    lines,              \* the lines of the one chunk the reader delivers when a
                        \* single chunk is parsed (SpecParse), <<>> otherwise
    wordsGenerated,     \* SummaryDisplay: useState, 0 while it is not mounted
    text,               \* SummaryForm: useState, the text of the textarea
    charCount,          \* SummaryForm: useState
    toast,              \* the toast handleSubmit raised last: "none" before any
    submitted           \* <<arg>> for the last onSummarize(arg), <<>> before any

\* The state of one call of handleSummarize and of the page around it.
pageVars ==
    <<summary, isLoading, error, pc, accumulatedSummary, frames, pos, reads,
      calls, exit, caught, reader, stale, lines, wordsGenerated>>

\* The state of SummaryForm.
formVars == <<text, charCount, toast, submitted>>

vars == <<pageVars, formVars>>

\* The bytes of the response body.
stream == Encode(frames)

Init ==
    /\ summary = <<>>
    /\ isLoading = FALSE
    /\ error = <<>>
    /\ pc = "idle"
    /\ accumulatedSummary = <<>>
    /\ frames = <<>>
    /\ pos = 0
    /\ reads = <<>>
    /\ calls = <<>>
    /\ exit = "none"
    /\ caught = <<>>
    /\ reader = "none"
    /\ stale = FALSE
    /\ lines = <<>>
    /\ wordsGenerated = 0
    /\ text = EMPTY_TEXT
    /\ charCount = 0
    /\ toast = "none"
    /\ submitted = <<>>

(* ------------------------------ actions -------------------------------- *)

\* /\s/ on the characters of this model: the space and the newline.
IsSpace(c) == c \in {" ", NL}

\* summary.trim().split(/\s+/).filter(w => w.length > 0).length: the number
\* of maximal runs of characters that are not whitespace.
WordCount(s) ==
    Cardinality({i \in 1..Len(s) :
                    ~IsSpace(s[i]) /\ (i = 1 \/ IsSpace(s[i - 1]))})

\* What rendering does to SummaryDisplay's wordsGenerated once an action has
\* set summary and isLoading: the component is there while summary ||
\* isLoading and its state is gone when it is not (useState(0) on the next
\* mount); its effect on [summary] sets the count only if (summary).
SummaryDisplayEffect ==
    wordsGenerated' =
        IF ~(summary' # <<>> \/ isLoading') THEN 0
        ELSE IF summary' # <<>> THEN WordCount(summary')
        ELSE wordsGenerated

\* <textarea disabled={isLoading}>
TextareaDisabled == isLoading

\* A variant of SubmitDisabled that does not look at isLoading.
SubmitDisabled_mut == ~IsTextValid(text)

\* <button type="submit" disabled={!isTextValid || isLoading}>
SubmitDisabled == ~IsTextValid(text) \/ isLoading

\* handleTextChange: the user edits the textarea.
HandleTextChange ==
    /\ ~TextareaDisabled
    /\ \E newText \in Typed :
          /\ text' = newText
          /\ charCount' = Length(newText)
    /\ UNCHANGED <<pageVars, toast, submitted>>

\* handleClear: the Clear button is there when text is not empty, and is
\* disabled while isLoading.
HandleClear ==
    /\ Length(text) > 0
    /\ ~isLoading
    /\ text' = EMPTY_TEXT
    /\ charCount' = 0
    /\ UNCHANGED <<pageVars, toast, submitted>>

\* handleExampleText: the "Load example text" button is never disabled.
HandleExampleText ==
    /\ text' = EXAMPLE_TEXT
    /\ charCount' = Length(EXAMPLE_TEXT)
    /\ UNCHANGED <<pageVars, toast, submitted>>

\* A variant of HandleSummarize without the setError('') of line 15.
HandleSummarize_mut(arg) ==
    /\ submitted' = <<arg>>
    /\ stale' = (summary # <<>> /\ error # <<>>)
    /\ isLoading' = TRUE
    /\ error' = error
    /\ summary' = <<>>
    /\ pc' = "fetching"
    /\ accumulatedSummary' = <<>>
    /\ frames' = <<>>
    /\ pos' = 0
    /\ reads' = <<>>
    /\ calls' = <<>>
    /\ exit' = "none"
    /\ caught' = <<>>
    /\ reader' = "none"
    /\ lines' = <<>>
    /\ SummaryDisplayEffect

\* handleSummarize(arg) from its call to its first await: lines 14-16, then
\* fetch is issued. A new call has no response, no reader and no accumulated
\* text yet, has made no call and has caught nothing.
HandleSummarize(arg) ==
    /\ submitted' = <<arg>>
    /\ stale' = (summary # <<>> /\ error # <<>>)
    /\ isLoading' = TRUE
    /\ error' = <<>>
    /\ summary' = <<>>
    /\ pc' = "fetching"
    /\ accumulatedSummary' = <<>>
    /\ frames' = <<>>
    /\ pos' = 0
    /\ reads' = <<>>
    /\ calls' = <<>>
    /\ exit' = "none"
    /\ caught' = <<>>
    /\ reader' = "none"
    /\ lines' = <<>>
    /\ SummaryDisplayEffect

\* The submit button is clicked: handleSubmit checks the trimmed text and
\* calls onSummarize(text.trim()), which is handleSummarize.
Submit ==
    /\ ~SubmitDisabled
    /\ IF Length(Trim(text)) < minChars
       THEN /\ toast' = "tooShort"
            /\ UNCHANGED <<pageVars, text, charCount, submitted>>
       ELSE IF Length(Trim(text)) > maxChars
       THEN /\ toast' = "tooLong"
            /\ UNCHANGED <<pageVars, text, charCount, submitted>>
       ELSE /\ toast' = "success"
            /\ HandleSummarize(Trim(text))
            /\ UNCHANGED <<text, charCount>>

\* A variant of MessageOf that shows the same text for whatever was caught.
MessageOf_mut(err) == MSG_UNEXPECTED

\* err instanceof Error ? err.message : 'An unexpected error occurred'
MessageOf(err) == IF err.isError THEN err.message ELSE MSG_UNEXPECTED

\* A variant of Catch without the setIsLoading(false) of line 81.
Catch_mutLoading(err, how, made) ==
    /\ isLoading' = isLoading
    /\ error' = MessageOf(err)
    /\ calls' = calls \o made \o <<[fn |-> "setError", arg |-> MessageOf(err)]>>
    /\ pc' = "failed"
    /\ exit' = how
    /\ caught' = <<err>>

\* A variant of Catch that does not call setError.
Catch_mut(err, how, made) ==
    /\ isLoading' = FALSE
    /\ error' = error
    /\ calls' = calls \o made
    /\ pc' = "failed"
    /\ exit' = how
    /\ caught' = <<err>>

\* The catch block, lines 80-84, entered from exit point `how` with `err`
\* after the try block made the calls `made`.
Catch(err, how, made) ==
    /\ isLoading' = FALSE
    /\ error' = MessageOf(err)
    /\ calls' = calls \o made \o <<[fn |-> "setError", arg |-> MessageOf(err)]>>
    /\ pc' = "failed"
    /\ exit' = how
    /\ caught' = <<err>>

\* await fetch(...) rejects.
FetchReject ==
    /\ pc = "fetching"
    /\ \E err \in Rejections : Catch(err, "fetchReject", <<>>)
    /\ UNCHANGED <<summary, accumulatedSummary, frames, pos, reads, reader, stale, lines>>
    /\ SummaryDisplayEffect
    /\ UNCHANGED formVars

\* !response.ok: await response.json(), then throw with detail or the default
\* (the call "json" records the detail response.json() resolved with).
ResponseNotOk ==
    /\ pc = "fetching"
    /\ \/ \E d \in Details :
            Catch([isError |-> TRUE,
                   message |-> IF d # <<>> THEN d ELSE MSG_FAILED], "notOk",
                  <<[fn |-> "json", arg |-> d]>>)
       \/ \E err \in JsonRejections : Catch(err, "jsonReject", <<>>)
    /\ UNCHANGED <<summary, accumulatedSummary, frames, pos, reads, reader, stale, lines>>
    /\ SummaryDisplayEffect
    /\ UNCHANGED formVars

\* !response.body
ResponseNoBody ==
    /\ pc = "fetching"
    /\ Catch([isError |-> TRUE, message |-> MSG_NO_BODY], "noBody", <<>>)
    /\ UNCHANGED <<summary, accumulatedSummary, frames, pos, reads, reader, stale, lines>>
    /\ SummaryDisplayEffect
    /\ UNCHANGED formVars

\* The response is ok and has a body: getReader(), accumulatedSummary = '',
\* and the first reader.read() is awaited.
ResponseOk ==
    /\ pc = "fetching"
    /\ \E fs \in Bodies : frames' = fs
    /\ pos' = 0
    /\ reads' = <<>>
    /\ accumulatedSummary' = <<>>
    /\ pc' = "reading"
    /\ reader' = "open"
    /\ UNCHANGED <<summary, isLoading, error, calls, exit, caught, stale, lines>>
    /\ SummaryDisplayEffect
    /\ UNCHANGED formVars

\* The last argument given to setSummary in `made`, or `old` if there is none.
LastSummary(old, made) ==
    LET idx == {i \in 1..Len(made) : made[i].fn = "setSummary"} IN
    IF idx = {} THEN old
    ELSE made[CHOOSE i \in idx : \A j \in idx : j <= i].arg

\* A variant of CanRead in which the catch block does not leave the while loop.
CanRead_mutCatch == pc \in {"reading", "failed"}

\* A variant of CanRead in which [DONE] does not leave the while loop.
CanRead_mut == pc \in {"reading", "done"}

\* Whether reader.read() may be awaited: the while loop is still running.
CanRead == pc = "reading"

\* The sizes the next chunk can have: any part of what is left, and all of
\* it when this is the last of MaxReads chunks.
ChunkSizes ==
    IF Len(reads) + 1 < MaxReads THEN 1..(Len(stream) - pos)
    ELSE {Len(stream) - pos} \ {0}

\* Lines 48-76 run on `value`, the bytes a read resolved with; r is their
\* outcome.
Deliver(value) ==
    \E r \in {ProcessChunk(accumulatedSummary, value)} :
          /\ reads' = Append(reads, value)
          /\ accumulatedSummary' = r.acc
          /\ summary' = LastSummary(summary, r.calls)
          /\ CASE r.status = "continue" ->
                    /\ calls' = calls \o r.calls
                    /\ UNCHANGED <<isLoading, error, pc, exit, caught>>
               [] r.status = "return" ->
                    /\ calls' = calls \o r.calls
                    /\ isLoading' = FALSE
                    /\ pc' = "done"
                    /\ exit' = "sentinelDone"
                    /\ UNCHANGED <<error, caught>>
               [] r.status = "throw" ->
                    Catch(r.thrown, "sentinelError", r.calls)

\* reader.read() resolves with the next k bytes of the response body.
ReadChunk ==
    /\ CanRead
    /\ \E k \in ChunkSizes :
          /\ pos' = pos + k
          /\ Deliver(SubSeq(stream, pos + 1, pos + k))
    /\ UNCHANGED <<frames, reader, stale, lines>>
    /\ SummaryDisplayEffect
    /\ UNCHANGED formVars

\* A variant of ReadDone without the setIsLoading(false) of line 79.
ReadDone_mut ==
    /\ CanRead
    /\ pos = Len(stream)
    /\ isLoading' = isLoading
    /\ pc' = "done"
    /\ exit' = "eof"
    /\ reader' = "closed"
    /\ UNCHANGED <<summary, error, accumulatedSummary, frames, pos, reads, calls,
                   caught, stale, lines>>
    /\ SummaryDisplayEffect
    /\ UNCHANGED formVars

\* reader.read() resolves with done: break, then line 79.
ReadDone ==
    /\ CanRead
    /\ pos = Len(stream)
    /\ isLoading' = FALSE
    /\ pc' = "done"
    /\ exit' = "eof"
    /\ reader' = "closed"
    /\ UNCHANGED <<summary, error, accumulatedSummary, frames, pos, reads, calls,
                   caught, stale, lines>>
    /\ SummaryDisplayEffect
    /\ UNCHANGED formVars

\* reader.read() rejects.
ReadReject ==
    /\ CanRead
    /\ \E err \in ReadRejections : Catch(err, "readReject", <<>>)
    /\ reader' = "errored"
    /\ UNCHANGED <<summary, accumulatedSummary, frames, pos, reads, stale, lines>>
    /\ SummaryDisplayEffect
    /\ UNCHANGED formVars

\* The user loads the example text and submits it, again after every call
\* has ended; the server answers in every way it can.
Next ==
    \/ HandleExampleText
    \/ Submit
    \/ FetchReject
    \/ ResponseNotOk
    \/ ResponseNoBody
    \/ ResponseOk
    \/ ReadChunk
    \/ ReadDone
    \/ ReadReject

Spec == Init /\ [][Next]_vars

\* A read that is awaited settles: the reader delivers a value, reports done
\* or rejects.
ReadSettles == ReadReject \/ ReadDone \/ ReadChunk

\* The first submission of the page.
SubmitFirst == submitted = <<>> /\ Submit

\* One call of handleSummarize: the user loads the example text and submits
\* it once; the server answers in every way it can.
NextLive ==
    \/ HandleExampleText
    \/ SubmitFirst
    \/ FetchReject
    \/ ResponseNotOk
    \/ ResponseNoBody
    \/ ResponseOk
    \/ ReadChunk
    \/ ReadDone
    \/ ReadReject

\* One call with a reader whose every read settles: an awaited read resumes
\* the call once the reader has delivered, reported done or rejected.
SpecLive == Init /\ [][NextLive]_vars /\ WF_vars(ReadSettles)

\* The user types, clears, loads the example and submits in every way the
\* form allows; every call ends before its response streams.
NextForm ==
    \/ HandleTextChange
    \/ HandleClear
    \/ HandleExampleText
    \/ Submit
    \/ FetchReject
    \/ ResponseNotOk
    \/ ResponseNoBody

SpecForm == Init /\ [][NextForm]_vars

(* ------------------ one chunk, line by line: SpecParse ----------------- *)

\* A line the server can send: its characters, and what it stands for under
\* the wire protocol: kind "content" (text: the fragment to append), "done",
\* "error" (text: the message), "ignored" (no data line).
WireLine(line, kind, txt) == [line |-> line, kind |-> kind, text |-> txt]

L_AB == WireLine(DATA_PREFIX \o <<"a", "b">>, "content", <<"a", "b">>)

\* Two escaped newlines in one payload.
L_ESC2 ==
    WireLine(DATA_PREFIX \o <<BS, "n", "x", BS, "n">>, "content", <<NL, "x", NL>>)

\* A backslash before the escape, and an n before a backslash.
L_BSBS == WireLine(DATA_PREFIX \o <<BS, BS, "n">>, "content", <<BS, NL>>)

L_NBS == WireLine(DATA_PREFIX \o <<"n", BS>>, "content", <<"n", BS>>)

L_EMPTY == WireLine(DATA_PREFIX, "content", <<>>)

L_DONE == WireLine(DATA_PREFIX \o DONE_SENTINEL, "done", <<>>)

\* Payloads that start with or contain '[DONE]' without being it.
L_DONEX ==
    WireLine(DATA_PREFIX \o DONE_SENTINEL \o <<"x">>, "content",
             DONE_SENTINEL \o <<"x">>)

L_XDONE ==
    WireLine(DATA_PREFIX \o <<"x">> \o DONE_SENTINEL, "content",
             <<"x">> \o DONE_SENTINEL)

L_ERR == WireLine(DATA_PREFIX \o ERROR_SENTINEL \o <<" ", "q">>, "error", <<"q">>)

\* '[ERROR] ' with nothing after it: an error with an empty message.
L_ERR0 == WireLine(DATA_PREFIX \o ERROR_SENTINEL \o <<" ">>, "error", <<>>)

\* '[ERROR]' without the space of the 8-character prefix: content.
L_ERRX ==
    WireLine(DATA_PREFIX \o ERROR_SENTINEL \o <<"x">>, "content",
             ERROR_SENTINEL \o <<"x">>)

L_ERR7 == WireLine(DATA_PREFIX \o ERROR_SENTINEL, "content", ERROR_SENTINEL)

\* Lines that are no data lines: the empty line, a comment, an id field,
\* 'data:' without the space, a data line after a leading space.
N_EMPTY == WireLine(<<>>, "ignored", <<>>)

N_COMMENT == WireLine(<<":", " ", "c">>, "ignored", <<>>)

N_ID == WireLine(<<"i", "d", ":", " ", "1">>, "ignored", <<>>)

N_NOSPACE_DONE ==
    WireLine(<<"d", "a", "t", "a", ":">> \o DONE_SENTINEL, "ignored", <<>>)

N_NOSPACE_ERR ==
    WireLine(<<"d", "a", "t", "a", ":">> \o ERROR_SENTINEL \o <<" ", "q">>,
             "ignored", <<>>)

N_LEAD_DONE == WireLine(<<" ">> \o DATA_PREFIX \o DONE_SENTINEL, "ignored", <<>>)

WireLines ==
    {L_AB, L_ESC2, L_BSBS, L_NBS, L_EMPTY, L_DONE, L_DONEX, L_XDONE, L_ERR,
     L_ERR0, L_ERRX, L_ERR7, N_EMPTY, N_COMMENT, N_ID, N_NOSPACE_DONE,
     N_NOSPACE_ERR, N_LEAD_DONE}

\* A line as it stands in the chunk: followed by the newline that ends the
\* line, or by the blank line that ends the frame as well.
EndedLines ==
    {[line |-> l.line, kind |-> l.kind, text |-> l.text, end |-> e] :
        l \in WireLines, e \in {<<NL>>, <<NL, NL>>}}

\* The chunks of whole lines: one to MaxLines lines.
LineSeqs == UNION {[1..n -> EndedLines] : n \in 1..MaxLines}

\* The bytes of the chunk made of the lines ls.
RECURSIVE ChunkOf(_)
ChunkOf(ls) ==
    IF ls = <<>> THEN <<>>
    ELSE Head(ls).line \o Head(ls).end \o ChunkOf(Tail(ls))

\* A call of handleSummarize at its first reader.read(): the example text
\* was submitted, the response is ok, and its body is the one chunk of `lines`.
InitParse ==
    /\ summary = <<>>
    /\ isLoading = TRUE
    /\ error = <<>>
    /\ pc = "reading"
    /\ accumulatedSummary = <<>>
    /\ frames = <<>>
    /\ pos = 0
    /\ reads = <<>>
    /\ calls = <<>>
    /\ exit = "none"
    /\ caught = <<>>
    /\ reader = "open"
    /\ stale = FALSE
    /\ lines \in LineSeqs
    /\ wordsGenerated = 0
    /\ text = EXAMPLE_TEXT
    /\ charCount = Length(EXAMPLE_TEXT)
    /\ toast = "success"
    /\ submitted = <<EXAMPLE_TEXT>>

\* reader.read() resolves with the chunk of `lines`; lines 48-76 run on it.
Ingest ==
    /\ CanRead
    /\ reads = <<>>
    /\ pos' = Len(ChunkOf(lines))
    /\ Deliver(ChunkOf(lines))
    /\ UNCHANGED <<frames, reader, stale, lines>>
    /\ SummaryDisplayEffect
    /\ UNCHANGED formVars

NextParse == Ingest

SpecParse == InitParse /\ [][NextParse]_vars

(* ------------------------- what the page shows ------------------------- *)

\* {(summary || isLoading) && <SummaryDisplay .../>}
DisplayShown == summary # <<>> \/ isLoading

\* {summary && !isLoading && <button onClick={handleCopy} ...>}
CopyShown == DisplayShown /\ summary # <<>> /\ ~isLoading

\* <StreamingProgress isComplete={!isLoading}/>, there when isLoading ||
\* summary: the status reads 'Complete' when isComplete.
StatusComplete == DisplayShown /\ (isLoading \/ summary # <<>>) /\ ~isLoading

\* {!isLoading && summary && <div> This summary was generated using AI ...}
DisclaimerShown == DisplayShown /\ ~isLoading /\ summary # <<>>

(* ------------------ what the wire protocol prescribes ------------------ *)

\* The summary text a sequence of frames carries: the texts of its content
\* frames, in order.
RECURSIVE TextOf(_)
TextOf(fs) ==
    IF fs = <<>> THEN <<>>
    ELSE (IF Head(fs).kind = "content" THEN Head(fs).text ELSE <<>>) \o TextOf(Tail(fs))

\* A valid stream: content frames, then one [DONE] frame.
ValidStream(fs) ==
    /\ fs # <<>>
    /\ fs[Len(fs)].kind = "done"
    /\ \A i \in 1..(Len(fs) - 1) : fs[i].kind = "content"

\* The first j frames.
FirstFrames(j) == SubSeq(frames, 1, j)

\* The offset in the stream at which frame j ends (0 for j = 0).
FrameEnd(j) == Len(Encode(FirstFrames(j)))

\* The offset in the stream at which the i-th value read ends (0 for i = 0).
RECURSIVE ReadEnd(_)
ReadEnd(i) == IF i = 0 THEN 0 ELSE ReadEnd(i - 1) + Len(reads[i])

\* The arguments of the setSummary calls made so far, in order.
RECURSIVE ArgsOf(_, _)
ArgsOf(cs, fn) ==
    IF cs = <<>> THEN <<>>
    ELSE (IF Head(cs).fn = fn THEN <<Head(cs).arg>> ELSE <<>>) \o ArgsOf(Tail(cs), fn)

Progress == ArgsOf(calls, "setSummary")

\* No content payload of fs begins with '[ERROR]'.
NoErrorLikeContent(fs) ==
    \A i \in 1..Len(fs) : fs[i].kind = "content" => ~StartsWith(fs[i].payload, ERROR_SENTINEL)

\* The read loop has ended on what the stream delivered (no read rejected).
LoopEnded == exit \in {"sentinelDone", "sentinelError", "eof"}

(* ------------------------------- claims -------------------------------- *)

\* C1: chunking invariance. For every way of splitting the bytes of a valid
\* stream (content frames, then a [DONE] frame) into read chunks, the text
\* accumulated when the read loop ends is the concatenation of the content
\* payloads, escapes decoded. Stated here for streams none of whose content
\* payloads begins with '[ERROR]', so that only the chunking decides it.
C1_ChunkingInvariance ==
    (ValidStream(frames) /\ NoErrorLikeContent(frames) /\ LoopEnded)
        => accumulatedSummary = TextOf(frames)

\* C2: a frame whose bytes arrive in two consecutive reads (read i ends
\* inside frame j, read i+1 brings its end) causes exactly one setSummary,
\* with the text up to and including the whole frame, and no setSummary ever
\* carries a text that ends inside a frame.
C2_SplitFrameOneUpdate ==
    \A i \in 1..(Len(reads) - 1), j \in 1..Len(frames) :
        ( /\ \A n \in 1..j : frames[n].kind = "content"
          /\ NoErrorLikeContent(FirstFrames(j))
          /\ FrameEnd(j - 1) < ReadEnd(i)
          /\ ReadEnd(i) < FrameEnd(j)
          /\ FrameEnd(j) <= ReadEnd(i + 1) )
        => /\ Cardinality({n \in 1..Len(Progress) :
                             Progress[n] = TextOf(FirstFrames(j))}) = 1
           /\ \A n \in 1..Len(Progress) :
                 \E k \in 0..Len(frames) : Progress[n] = TextOf(FirstFrames(k))

\* C3: a read whose value is exactly two complete content frames makes
\* exactly two setSummary calls, in frame order: the text so far with the
\* first frame's text appended, then that with the second frame's appended.
C3_TwoFramesTwoUpdates ==
    [][ \A f, g \in ContentFrames :
          ( /\ pc = "reading"
            /\ pos' > pos
            /\ SubSeq(stream, pos + 1, pos') = FrameBytes(f) \o FrameBytes(g) )
          => ArgsOf(calls', "setSummary")
               = Progress \o << accumulatedSummary \o f.text,
                                accumulatedSummary \o f.text \o g.text >> ]_vars

\* Lemma for C3: the same holds of every pair of content frames neither of
\* whose payloads begins with '[ERROR]'.
C3_ExceptErrorLike ==
    [][ \A f, g \in ContentFrames :
          ( /\ pc = "reading"
            /\ pos' > pos
            /\ NoErrorLikeContent(<<f, g>>)
            /\ SubSeq(stream, pos + 1, pos') = FrameBytes(f) \o FrameBytes(g) )
          => ArgsOf(calls', "setSummary")
               = Progress \o << accumulatedSummary \o f.text,
                                accumulatedSummary \o f.text \o g.text >> ]_vars

\* Every value read so far ends where a frame ends.
FrameAligned ==
    \A i \in 1..Len(reads) : \E j \in 1..Len(frames) : ReadEnd(i) = FrameEnd(j)

\* C4: when every read chunk ends on a frame boundary and the stream is
\* content frames p1..pk followed by a [DONE] frame, the session ends in
\* success (isLoading false, error empty) with summary = p1..pk in order.
C4_AlignedStreamSucceeds ==
    ( /\ ValidStream(frames)
      /\ FrameAligned
      /\ LoopEnded \/ (exit = "none" /\ pc = "reading" /\ pos = Len(stream)) )
    => /\ pc = "done"
       /\ ~isLoading
       /\ error = <<>>
       /\ summary = TextOf(frames)

\* Lemma for C4: the same holds of every stream none of whose content
\* payloads begins with '[ERROR]'.
C4_ExceptErrorLike ==
    NoErrorLikeContent(frames) => C4_AlignedStreamSucceeds

\* Every value read so far ends where a data line ends: after the payload,
\* after the newline that follows it, or after the blank line.
LineAligned ==
    \A i \in 1..Len(reads) :
        \E j \in 1..Len(frames), d \in 0..Len(<<NL, NL>>) : ReadEnd(i) = FrameEnd(j) - d

\* C5: when every read chunk consists of whole data lines (it need not end
\* with the blank line), the summary shown once [DONE] is processed is the
\* concatenation of the content payloads that came before it, in order.
C5_WholeLinesSummary ==
    (LineAligned /\ exit = "sentinelDone")
        => \E j \in 1..Len(frames) :
              /\ frames[j].kind = "done"
              /\ \A n \in 1..(j - 1) : frames[n].kind = "content"
              /\ summary = TextOf(FirstFrames(j - 1))

\* Two content payloads and [DONE] were processed from chunks the first of
\* which ends right after a data line, before its blank line.
C5_Witness ==
    /\ LineAligned
    /\ exit = "sentinelDone"
    /\ Len(reads) = MaxReads
    /\ \A j \in 1..Len(frames) : ReadEnd(1) # FrameEnd(j)
    /\ Len(Progress) >= 2

\* '[ERROR] ', the 8-character prefix of the wire protocol.
ERROR_PREFIX == ERROR_SENTINEL \o <<" ">>

\* C6: when a payload '[ERROR] <message>' is processed, the error is set to
\* exactly <message>, the session ends failed with isLoading false, and no
\* setSummary follows: the only call after the throw is the one setError.
C6_ErrorSentinel ==
    \A n \in 1..Len(calls) :
        (calls[n].fn = "throw" /\ StartsWith(calls[n].arg, ERROR_PREFIX))
        => LET message == SubSeq(calls[n].arg, Len(ERROR_PREFIX) + 1, Len(calls[n].arg)) IN
           /\ n + 1 = Len(calls)
           /\ calls[n + 1] = [fn |-> "setError", arg |-> message]
           /\ error = message
           /\ pc = "failed"
           /\ ~isLoading

\* '[ERROR] q' came first in a chunk that also held a content frame: the
\* error is 'q' and the content frame caused no setSummary.
C6_Witness ==
    /\ pc = "failed"
    /\ exit = "sentinelError"
    /\ Len(frames) = 2
    /\ frames[1] = F_ERR
    /\ frames[2] = F_AB
    /\ reads = <<stream>>
    /\ error = <<"q">>
    /\ Progress = <<>>

\* C7: if the reader reports done before any [DONE] or [ERROR] payload was
\* processed, the session ends failed with an error shown, never as a
\* success with the error empty.
C7_IncompleteStreamFails ==
    exit = "eof" => (pc = "failed" /\ error # <<>>)

\* C8: once a call has ended (done or failed) nothing of it changes: no
\* further read, no further line processed, the accumulated text, the calls
\* made and the way it ended stay as they are; the only step left is a new
\* submission, which starts another call.
C8_TerminalFrozen ==
    [][ (pc \in {"done", "failed"} /\ pc' # "fetching")
        => /\ pc' = pc
           /\ pos' = pos
           /\ reads' = reads
           /\ accumulatedSummary' = accumulatedSummary
           /\ calls' = calls
           /\ exit' = exit ]_vars

\* A call that ended at [DONE] while bytes of the body were still unread.
C8_Witness ==
    /\ pc = "done"
    /\ exit = "sentinelDone"
    /\ pos < Len(stream)

\* s is a prefix of t.
IsPrefix(s, t) == Len(s) <= Len(t) /\ SubSeq(t, 1, Len(s)) = s

\* C9: the values given to setSummary within one call grow: each is a
\* prefix of the next, and the accumulated text is the last of them.
C9_ProgressGrows ==
    /\ \A n \in 1..(Len(Progress) - 1) : IsPrefix(Progress[n], Progress[n + 1])
    /\ Progress # <<>> =>
          /\ accumulatedSummary = Progress[Len(Progress)]
          /\ summary = Progress[Len(Progress)]
    /\ Progress = <<>> => (accumulatedSummary = <<>> /\ summary = <<>>)

\* Two different content payloads were appended, one after the other.
C9_Witness ==
    /\ Len(Progress) >= 2
    /\ Progress[1] = F_AB.text
    /\ Progress[2] = F_AB.text \o F_ESC.text

\* The failures a call can meet.
FailureExits ==
    {"fetchReject", "notOk", "jsonReject", "noBody", "sentinelError", "readReject"}

\* C10: a call that fails (before streaming, at an [ERROR] payload, at a
\* rejected read) calls setError exactly once, with the error then shown;
\* a call that is running or has ended in success has not called it.
C10_ErrorHandlerOnce ==
    LET errors == ArgsOf(calls, "setError") IN
    /\ exit \in FailureExits =>
          /\ pc = "failed"
          /\ Len(errors) = 1
          /\ error = errors[1]
          /\ ~isLoading
    /\ pc = "failed" => exit \in FailureExits
    /\ pc \in {"fetching", "reading", "done"} => errors = <<>>

\* A read was rejected after some text had been shown.
C10_Witness ==
    /\ exit = "readReject"
    /\ Progress # <<>>
    /\ ArgsOf(calls, "setError") = <<<<"n", "e", "t">>>>

\* C11: a rejection of fetch or of reader.read() is caught inside
\* handleSummarize: the call ends in its catch block (it returns, it does not
\* reject), isLoading is false, and the error shown is the message of the
\* Error that was caught (the fixed text when what was caught is no Error).
C11_RejectionCaught ==
    exit \in {"fetchReject", "readReject"}
        => /\ pc = "failed"
           /\ ~isLoading
           /\ Len(caught) = 1
           /\ caught[1].isError => error = caught[1].message
           /\ ~caught[1].isError => error = MSG_UNEXPECTED

\* reader.read() rejected with Error('net') after an earlier read had
\* delivered a chunk.
C11_Witness ==
    /\ exit = "readReject"
    /\ reads # <<>>
    /\ caught = <<[isError |-> TRUE, message |-> <<"n", "e", "t">>]>>
    /\ error = <<"n", "e", "t">>
    /\ ~isLoading

\* The response was not ok, or was ok without a body.
EndedBeforeStream == exit \in {"notOk", "jsonReject", "noBody"}

\* C12: when the response is not ok the error is the body's detail if it is
\* present and 'Failed to generate summary' otherwise; when the response is
\* ok without a body the error is 'No response body'; in both cases no read
\* was issued, the summary is empty and isLoading is false.
C12_NotOkOrNoBody ==
    LET details == ArgsOf(calls, "json") IN
    /\ exit \in {"notOk", "jsonReject"}
          => error = IF details # <<>> /\ details[1] # <<>>
                     THEN details[1] ELSE MSG_FAILED
    /\ exit = "noBody" => error = MSG_NO_BODY
    /\ EndedBeforeStream
          => /\ reads = <<>>
             /\ reader = "none"
             /\ summary = <<>>
             /\ ~isLoading

\* Lemma for C12: the same holds whenever response.json() resolved.
C12_ExceptJsonReject ==
    exit # "jsonReject" => C12_NotOkOrNoBody

\* The last element of a non-empty sequence, `none` for the empty one.
LastOr(seq, none) == IF seq = <<>> THEN none ELSE seq[Len(seq)]

\* C13: a new call resets the error and the summary before anything of it is
\* applied: at every moment the error shown is the one this call has set (none
\* if it has set none) and the summary shown is the last this call has set
\* (empty if it has set none), whatever the call before had left.
C13_ResetOnSubmit ==
    /\ error = LastOr(ArgsOf(calls, "setError"), <<>>)
    /\ summary = LastOr(Progress, <<>>)
    /\ pc = "fetching" => (error = <<>> /\ summary = <<>>)

\* A call was submitted while the page showed a summary and an error of the
\* call before; both are gone and nothing of the new call is applied yet.
C13_Witness ==
    /\ stale
    /\ pc = "fetching"
    /\ error = <<>>
    /\ summary = <<>>

\* The step is a call of onSummarize: handleSummarize starts.
OnSummarizeCalled == pc # "fetching" /\ pc' = "fetching"

\* C14: SummaryForm calls onSummarize only when the trimmed text has between
\* 10 and 50,000 characters, both included, and passes the trimmed text (the
\* text without the whitespace at its ends); no other step changes what was
\* passed last.
C14_OnlyValidTrimmed ==
    [][ /\ OnSummarizeCalled
            => /\ text.core >= minChars
               /\ text.core <= maxChars
               /\ submitted' = <<Text(0, text.core, 0)>>
        /\ ~OnSummarizeCalled => submitted' = submitted ]_vars

\* A text of exactly 10 characters between whitespace was submitted: the 10
\* characters were passed.
C14_Witness ==
    /\ text = Text(1, minChars, 2)
    /\ submitted = <<Text(0, minChars, 0)>>
    /\ pc = "fetching"

\* C15: the submit button is enabled exactly when the trimmed text has
\* between 10 and 50,000 characters and isLoading is false; while isLoading is
\* true (as it is while a request is in flight) the textarea and the submit
\* button are disabled and the form cannot submit.
C15_SubmitEnabledIff ==
    /\ ~SubmitDisabled
          <=> (text.core >= minChars /\ text.core <= maxChars /\ ~isLoading)
    /\ pc = "fetching" => isLoading
    /\ isLoading => (TextareaDisabled /\ SubmitDisabled /\ ~ENABLED Submit)

\* A request is in flight while the form holds a valid text of 50,000
\* characters between whitespace (the example was not loaded over it).
C15_Witness ==
    /\ isLoading
    /\ pc = "fetching"
    /\ text = Text(1, maxChars, 2)
    /\ SubmitDisabled

\* The call is active: its fetch or a read of its stream is awaited.
Active == pc \in {"fetching", "reading"}

\* C17 as claimed: while a call is active and the form holds a valid text, a
\* new submission can start its own call.
C17_SubmitWhileActive ==
    (Active /\ IsTextValid(text)) => ENABLED Submit

\* C17 as amended: while a call is active isLoading is true, the submit
\* button is disabled and no submission can start; a call starts only when
\* none is active.
C17_NoSubmitWhileActive ==
    Active => (isLoading /\ SubmitDisabled /\ ~ENABLED Submit)

\* The stream of a call is draining (a chunk was read, bytes are left) and
\* the form holds a valid text.
C17_Witness ==
    /\ pc = "reading"
    /\ reads # <<>>
    /\ pos < Len(stream)
    /\ IsTextValid(text)

\* The reader's stream is no longer open: it was cancelled, it ended, or a
\* read of it failed.
Released == reader \in {"cancelled", "closed", "errored"}

\* C16: every call that obtained a reader has released it when it ends,
\* whether at end-of-stream, at [DONE], at [ERROR] or at a failed read.
\* Stated here for calls whose chunks end on frame boundaries and whose
\* content payloads do not begin with '[ERROR]', so that only the release
\* decides it.
C16_ReaderReleased ==
    ( /\ pc \in {"done", "failed"}
      /\ reader # "none"
      /\ FrameAligned
      /\ NoErrorLikeContent(frames) )
    => Released

\* Lemma for C16: the calls that end at end-of-stream or at a failed read
\* leave no open stream.
C16_ExceptSentinels ==
    exit \in {"eof", "readReject"} => Released

\* C19: when a call ends failed after text was accumulated, the text is kept
\* as the summary, but the page does not show it as finished: no 'Complete'
\* status, no copy button, no disclaimer. Stated here for calls whose chunks
\* end on frame boundaries and whose content payloads do not begin with
\* '[ERROR]', so that only what the page shows decides it.
C19_FailedNotComplete ==
    ( /\ pc = "failed"
      /\ accumulatedSummary # <<>>
      /\ FrameAligned
      /\ NoErrorLikeContent(frames) )
        => /\ summary = accumulatedSummary
           /\ ~StatusComplete
           /\ ~CopyShown
           /\ ~DisclaimerShown

\* Lemma for C19: the partial text of a failed call is kept as the summary.
C19_PartialKept ==
    (pc = "failed" /\ accumulatedSummary # <<>>) => summary = accumulatedSummary

\* C20: nothing is ingested into a call that is done or failed: from such a
\* state no step reads or appends (the accumulated text, the values read and
\* the position stay), except a new submission, which starts another call with
\* an empty accumulated text, nothing read and no reader.
C20_NoReingest ==
    [][ (pc \in {"done", "failed"})
        => ( \/ /\ accumulatedSummary' = accumulatedSummary
                /\ reads' = reads
                /\ pos' = pos
                /\ pc' = pc
             \/ /\ OnSummarizeCalled
                /\ accumulatedSummary' = <<>>
                /\ reads' = <<>>
                /\ pos' = 0
                /\ reader' = "none" ) ]_vars

\* A call that followed one ended failed with text accumulated has read one
\* frame: its accumulated text is that frame's text and nothing more.
C20_Witness ==
    /\ stale
    /\ Len(reads) = 1
    /\ Progress = <<F_AB.text>>
    /\ accumulatedSummary = F_AB.text

(* ----------------- the lines of one chunk (SpecParse) ------------------ *)

\* The single chunk has been read and lines 48-76 have run on it.
Ingested == reads # <<>>

\* A content line whose payload starts with '[ERROR]' (see C24).
ErrorLike(l) == l.kind = "content" /\ StartsWith(DataOf(l.line), ERROR_SENTINEL)

\* The lines of ls before the first of the places `stops`.
Upto(ls, stops) ==
    IF stops = {} THEN ls ELSE SubSeq(ls, 1, Least(stops) - 1)

\* A line at which the loop of the code stops: [DONE], [ERROR] <message>, or
\* an error-like content line.
StopsLoop(l) == l.kind \in {"done", "error"} \/ ErrorLike(l)

\* The lines of ls that the loop of the code reaches and does not stop at.
BeforeLoopStops(ls) == Upto(ls, {i \in 1..Len(ls) : StopsLoop(ls[i])})

\* A line at which the wire protocol ends the stream.
StopsStream(l) == l.kind \in {"done", "error"}

\* The lines of ls before the line at which the wire protocol ends the stream.
BeforeStreamStops(ls) == Upto(ls, {i \in 1..Len(ls) : StopsStream(ls[i])})

\* The line of ls that follows the lines `before`, if there is one.
NextAfter(ls, before) ==
    IF Len(before) < Len(ls) THEN <<ls[Len(before) + 1]>> ELSE <<>>

\* What the summary is after each content line of ls, in order, starting
\* from acc: the fragments of the wire protocol appended one by one.
RECURSIVE Running(_, _)
Running(acc, ls) ==
    IF ls = <<>> THEN <<>>
    ELSE IF Head(ls).kind = "content"
         THEN <<acc \o Head(ls).text>> \o Running(acc \o Head(ls).text, Tail(ls))
         ELSE Running(acc, Tail(ls))

\* C21: every backslash-n of a content payload is appended as one newline and
\* every other character as it is, in order: after a chunk of whole lines,
\* the summaries set are the running concatenation of the protocol's
\* fragments of the content lines the loop reached, and accumulatedSummary
\* is the last of them.
C21_UnescapeAll ==
    Ingested =>
        LET reached == BeforeLoopStops(lines) IN
        /\ Progress = Running(<<>>, reached)
        /\ accumulatedSummary = LastOr(Progress, <<>>)

\* Two payloads with three escapes and a lone backslash were appended.
C21_Witness ==
    /\ Ingested
    /\ Len(lines) = 2
    /\ lines[1].line = L_BSBS.line
    /\ lines[2].line = L_ESC2.line
    /\ summary = <<BS, NL, NL, "x", NL>>

\* Whether a line is one the wire protocol does not ignore.
IsKept(l) == l.kind # "ignored"

\* C22: a line that does not start with 'data: ' has no effect: a chunk of
\* such lines only sets nothing, appends nothing and leaves the call
\* reading, and a chunk ends as the same chunk without such lines ends.
C22_NonDataIgnored ==
    Ingested =>
        LET kept == SelectSeq(lines, IsKept)
            reached == BeforeLoopStops(kept)
            stop == NextAfter(kept, reached)
        IN  /\ Progress = Running(<<>>, reached)
            /\ accumulatedSummary = LastOr(Progress, <<>>)
            /\ stop = <<>> => pc = "reading" /\ isLoading /\ error = <<>>
            /\ kept = <<>> => calls = <<>> /\ summary = <<>> /\ exit = "none"
            /\ (stop # <<>> /\ stop[1].kind = "done") => exit = "sentinelDone"
            /\ (stop # <<>> /\ stop[1].kind = "error") =>
                   exit = "sentinelError" /\ error = stop[1].text

\* 'data:[DONE]' without the space came first and ended nothing: the content
\* line after it was appended.
C22_Witness ==
    /\ Ingested
    /\ Len(lines) = 2
    /\ lines[1].line = N_NOSPACE_DONE.line
    /\ lines[2].line = L_AB.line
    /\ summary = <<"a", "b">>
    /\ pc = "reading"

\* C23: the call ends at the sentinel exactly when a payload that is
\* '[DONE]' is processed; then isLoading is false, error is empty, the
\* summary is what was accumulated before it, the lines after it are
\* skipped and no read follows. A payload that starts with or contains
\* '[DONE]' is content.
C23_DoneExactly ==
    Ingested =>
        LET reached == BeforeLoopStops(lines)
            stop == NextAfter(lines, reached)
            atDone == stop # <<>> /\ stop[1].kind = "done"
        IN  /\ exit = "sentinelDone" <=> atDone
            /\ atDone =>
                  /\ ~isLoading
                  /\ error = <<>>
                  /\ Progress = Running(<<>>, reached)
                  /\ summary = LastOr(Progress, <<>>)
                  /\ ~CanRead
                  /\ ~ENABLED Ingest

\* '[DONE]x' was appended as content and the '[DONE]' after it ended the call.
C23_Witness ==
    /\ Ingested
    /\ Len(lines) = 2
    /\ lines[1].line = L_DONEX.line
    /\ lines[2].line = L_DONE.line
    /\ exit = "sentinelDone"
    /\ summary = DONE_SENTINEL \o <<"x">>

\* C24: a payload is a server-signalled error iff it starts with the 8
\* characters '[ERROR] ', the message is what follows them, and any other
\* payload is appended as content.
C24_ErrorIffPrefix ==
    Ingested =>
        LET reached == BeforeStreamStops(lines)
            stop == NextAfter(lines, reached)
            atError == stop # <<>> /\ stop[1].kind = "error"
        IN  /\ exit = "sentinelError" <=> atError
            /\ atError => error = stop[1].text
            /\ Progress = Running(<<>>, reached)

\* The number of frames that the lines ls end.
Frames(ls) == Cardinality({i \in 1..Len(ls) : ls[i].end = <<NL, NL>>})

\* A chunk of whole frames whose lines all reach the content branch.
ContentFramesOnly(ls) ==
    /\ \A i \in 1..Len(ls) : ls[i].kind = "content" /\ ~ErrorLike(ls[i])
    /\ ls[Len(ls)].end = <<NL, NL>>

\* C25: the data lines of one frame are one event: their payloads are
\* appended in order and the summary is set once for the frame.
C25_OneUpdatePerFrame ==
    (Ingested /\ ContentFramesOnly(lines)) =>
        /\ accumulatedSummary = LastOr(Running(<<>>, lines), <<>>)
        /\ Len(Progress) = Frames(lines)

\* The texts a server may have to send.
SummaryTexts ==
    {<<"a", "b">>, <<NL, "x", NL>>, <<BS, NL>>, <<BS, "n", "x", BS, "n">>}

\* The escaping of the transport layer: every newline becomes backslash-n.
RECURSIVE Escape(_)
Escape(t) ==
    IF t = <<>> THEN <<>>
    ELSE (IF Head(t) = NL THEN <<BS, "n">> ELSE <<Head(t)>>) \o Escape(Tail(t))

\* C26: a text escaped by the transport layer and unescaped by the client is
\* the text again, also when it holds a backslash followed by n already.
C26_RoundTrip ==
    (Ingested /\ Len(lines) = 1) =>
        \A t \in SummaryTexts :
            lines[1].line = DATA_PREFIX \o Escape(t) => accumulatedSummary = t

\* C27: isLoading is true from the start of handleSummarize until the call
\* ends and false after every exit; it goes from false to true only at a
\* submission; and with a reader whose reads settle, a call that reads
\* leads to isLoading false. (One call: the calls of a page do not differ
\* in isLoading, see C13 and C29 for calls that follow one another.)
C27_LoadingUntilEnd ==
    /\ [](Active => isLoading)
    /\ [](pc \in {"idle", "done", "failed"} => ~isLoading)
    /\ [][(~isLoading /\ isLoading') => OnSummarizeCalled]_vars
    /\ (pc = "reading" ~> ~isLoading)

\* A read rejected after a chunk had been delivered, and isLoading is false.
C27_Witness ==
    /\ exit = "readReject"
    /\ reads # <<>>
    /\ ~isLoading

\* {error && <div> ... Error ... {error} ... </div>}
ErrorShown == error # <<>>

\* C28: after any failure the error stored is not empty, so the error panel
\* is rendered: no call ends in the catch block with nothing shown.
C28_FailureShown == pc = "failed" => ErrorShown

\* C29: a non-empty error implies that isLoading is false, in every state of
\* every sequence of submissions.
C29_ErrorNotLoading == error # <<>> => ~isLoading

\* A call failed with an error shown after the call before it had failed
\* with a summary and an error shown.
C29_Witness ==
    /\ stale
    /\ pc = "failed"
    /\ error # <<>>
    /\ ~isLoading

\* C30: whenever SummaryDisplay is there, wordsGenerated is the number of
\* words of the current summary, also when a new submission has reset the
\* summary to empty while the component stays mounted.
C30_WordsOfSummary == DisplayShown => wordsGenerated = WordCount(summary)

====
